---- MODULE Spec2Model ----
(***************************************************************************)
(* The data module of the editor (src/data/index.js): a registry of       *)
(* Redux stores keyed by reducer key, their bound selectors and bound     *)
(* action creators, and one module-wide listener list that every store    *)
(* notifies after each dispatch, with the withSelect and withDispatch      *)
(* higher-order components built on it.  Also the ifCondition             *)
(* higher-order component                                                  *)
(* (src/components/higher-order/if-condition/index.js), the                *)
(* PreserveScrollInReorder component and the edit-post store wiring        *)
(* (src/edit-post/components/preserve-scroll-in-reorder/index.js).         *)
(***************************************************************************)
EXTENDS Integers, Sequences, FiniteSets, TLC

(* ------------------------------ bounds -------------------------------- *)
\* store objects createStore may create in one run
MaxStores == 2
\* subscribe calls in one run
MaxSubs == 2
\* store states are the object identities 0..MaxState
MaxState == 2
\* the `number` prop of the ifCondition examples ranges over 0..MaxNumber
MaxNumber == 3
\* setProxyProps calls of one ComponentWithDispatch that bind a new function
MaxBinds == 3
\* a block's offset inside the scrolled content ranges over 0..MaxPos
MaxPos == 2
\* the scroll container's scrollTop ranges over 0..MaxScroll
MaxScroll == 2

(* ------------------------------ values -------------------------------- *)
\* JavaScript values that are compared with !== : tagged so that a number
\* and a boolean are never identical.
Undefined == <<"undefined", 0>>
Num(n) == <<"number", n>>
Bool(b) == <<"boolean", IF b THEN 1 ELSE 0>>
Str(s) == <<"string", s>>

\* JavaScript truthiness of a tagged value (used by `if ( x )`, `! x`).
Truthy(v) ==
  CASE v[1] = "undefined" -> FALSE
    [] v[1] = "number" -> v[2] # 0
    [] v[1] = "boolean" -> v[2] = 1
    [] v[1] = "string" -> v[2] # ""
    [] OTHER -> TRUE

Keys == {"k1", "k2"}
\* the reducer keys of the edit-post store wiring
WiringKeys == {"core/viewport", "core/edit-post"}
AllKeys == Keys \cup WiringKeys
States == 0..MaxState
\* `stores[ key ]` of a key no store was registered for
NoStore == 0
\* a property an object does not have
NoFn == "none"

\* argument lists ( ...args ) of selector and action-creator calls
ArgLists == {<<>>} \cup {<<v>> : v \in States \ {0}}

(* ------------- the functions callers hand to the module --------------- *)
\* Actions dispatched to stores.  INIT is the action Redux dispatches in
\* createStore.
ActInit == [type |-> "@@redux/INIT", value |-> 0]
ActInc == [type |-> "INC", value |-> 0]
ActionValues ==
  {ActInc, [type |-> "OTHER", value |-> 0]}
    \cup {[type |-> "SET", value |-> v] : v \in States}

\* Two reducers, "counter" and "sticky".  A reducer returns the identical state when the action does
\* not concern it.  The reducer of 'core/edit-post' has the sidebar closed in
\* state 1; the reducer of 'core/viewport' only takes SET.
Reduce(reducer, state, action) ==
  CASE action.type = "@@redux/INIT" -> 0
    [] action.type = "CLOSE_GENERAL_SIDEBAR" ->
         IF reducer = "edit-post" THEN 1 ELSE state
    [] action.type = "SET" ->
         IF action.value \in States THEN action.value ELSE state
    [] action.type = "INC" /\ reducer = "counter" -> (state + 1) % (MaxState + 1)
    [] OTHER -> state

\* Two selectors, "getValue" and "isAtLeast": selector( state, ...args ).
ApplySelector(fn, state, args) ==
  CASE fn = "getValue" -> Num(state)
    [] fn = "isAtLeast" ->
         IF Len(args) = 0 THEN Bool(FALSE) ELSE Bool(state >= args[1])
    [] fn = "isViewportMatch" ->
         Bool(Len(args) > 0 /\ args[1] = "< medium" /\ state \in {1, 2})
    [] fn = "hasOpenSidebar" -> Bool(state # 1)
    [] OTHER -> Undefined

\* Two action creators, "setValue" and "increment": action( ...args ).
ApplyCreator(creator, args) ==
  CASE creator = "setValue" ->
         [type |-> "SET", value |-> IF Len(args) = 0 THEN 0 - 1 ELSE args[1]]
    [] creator = "increment" -> [type |-> "INC", value |-> 0]
    [] creator = "closeGeneralSidebar" ->
         [type |-> "CLOSE_GENERAL_SIDEBAR", value |-> 0]
    [] OTHER -> [type |-> "OTHER", value |-> 0]

SelNames == {"get", "test"}
ActNames == {"set", "inc"}
\* the objects passed as newSelectors / options.selectors
AllSelectors == [n \in SelNames |-> IF n = "get" THEN "getValue" ELSE "isAtLeast"]
SelectorMaps ==
  { [n \in SelNames |-> IF n = "get" THEN "getValue" ELSE NoFn], AllSelectors }
\* a second registration that puts another function under 'get'
OtherSelectors == [n \in SelNames |-> "isAtLeast"]
\* the objects passed as newActions / options.actions
AllActions == [n \in ActNames |-> IF n = "set" THEN "setValue" ELSE "increment"]
ActionMaps ==
  { [n \in ActNames |-> IF n = "set" THEN "setValue" ELSE NoFn], AllActions }

\* options.actions / options.selectors may be absent
AbsentSelectors == [given |-> FALSE, map |-> [n \in SelNames |-> NoFn]]
AbsentActions == [given |-> FALSE, map |-> [n \in ActNames |-> NoFn]]
Given(m) == [given |-> TRUE, map |-> m]
\* the options objects passed to registerStore: every combination for the
\* first key, one complete description for the second
OptionsSet(reducerKey) ==
  IF reducerKey = "k1"
    THEN [reducer : {"counter", NoFn},
          actions : {AbsentActions} \cup {Given(m) : m \in ActionMaps},
          selectors : {AbsentSelectors} \cup {Given(m) : m \in SelectorMaps}]
    ELSE {[reducer |-> "sticky", actions |-> Given(AllActions),
           selectors |-> Given(AllSelectors)]}
NoOptions == [reducer |-> NoFn, actions |-> AbsentActions, selectors |-> AbsentSelectors]

(* ------------------------------ state --------------------------------- *)
VARIABLES
  storeObjs,   \* the store objects created so far: <<[reducer, state]>>
  stores,      \* const stores = {}: reducer key -> index into storeObjs
  selectors,   \* const selectors = {}: reducer key -> bound selectors
  actions,     \* const actions = {}: reducer key -> bound action creators
  listeners,   \* let listeners = []: the functions globalListener calls
  subs,        \* the unsubscribe closures subscribe has returned
  last,        \* the last call made to the module and its outcome
  invoked,     \* how often each subscription's listener ran in the last call
  argOf,       \* the argument each listener was last invoked with
  sent,        \* the bound actions listeners called during the last call
  withSel,     \* the ComponentWithSelect instance
  withDisp,    \* the ComponentWithDispatch instance
  scroll,      \* the PreserveScrollInReorder instance and the DOM it reads
  hoc          \* the ifCondition component last rendered

vars == <<storeObjs, stores, selectors, actions, listeners, subs, last,
          invoked, argOf, sent, withSel, withDisp, scroll, hoc>>

dataVars == <<storeObjs, stores, selectors, actions, listeners, subs, last,
              invoked, argOf, sent, withSel>>

\* the components that no function of the data module touches
otherVars == <<withDisp, scroll, hoc>>

(* ------------------------ the module's functions ---------------------- *)
\* The module-level bindings as one record, so that the functions below
\* compose the way the code calls them.
Module ==
  [storeObjs |-> storeObjs, stores |-> stores, selectors |-> selectors,
   actions |-> actions, listeners |-> listeners, invoked |-> invoked,
   argOf |-> argOf, sent |-> sent, comp |-> withSel, thrown |-> "",
   ret |-> NoStore]

NoEntry == [fn |-> NoFn, store |-> NoStore]
Unregistered(names) == [def |-> FALSE, fns |-> [n \in names |-> NoEntry]]
\* Object.keys( select( key ) ) and Object.keys( dispatch( key ) )
KeyNames(bound) == {n \in DOMAIN bound.fns : bound.fns[n].fn # NoFn}
MapNames(map) == {n \in DOMAIN map : map[n] # NoFn}

\* a bound selector that reads the state once, when the store is created,
\* instead of calling store.getState() at each call
createStateSelector_readsOnce(objs, entry, args) ==
  ApplySelector(entry.fn, Reduce(objs[entry.store].reducer, 0, ActInit), args)

\* createStateSelector: ( ...args ) => selector( store.getState(), ...args )
createStateSelector(objs, entry, args) ==
  ApplySelector(entry.fn, objs[entry.store].state, args)

\* select( reducerKey ): the bound selectors of the key
select(m, reducerKey) == m.selectors[reducerKey]

\* dispatch( reducerKey ): the bound action creators of the key
dispatch(m, reducerKey) == m.actions[reducerKey]

\* `when` with a predicate that compares but never stores the state it saw
when_forgetsState(e, objs) ==
  [e |-> e, call |-> objs[e.store].state # e.lastState]

\* when( predicate )( listener ) with the predicate of subscribe: compare the
\* store's state with lastState, remember it, call the listener if it differs.
when(e, objs) ==
  LET state == objs[e.store].state
      isOk == state # e.lastState
  IN  [e |-> [e EXCEPT !.lastState = state], call |-> isOk]

\* getResult of subscribe: selectors[ reducerKey ][ selectorName ]( ...selectorArgs ),
\* looked up in the registry at the time of the call.
getResult(m, e) ==
  createStateSelector(m.storeObjs, m.selectors[e.key].fns[e.name], e.args)

\* `whenWith` that calls ifTrueFn() without handing it the result
whenWith_dropsResult(e, m) ==
  LET result == getResult(m, e)
      e1 == [e EXCEPT !.lastResult = result]
      inner == when(e1, m.storeObjs)
  IN  IF result # e.lastResult
        THEN [e |-> inner.e, call |-> inner.call, arg |-> Undefined]
        ELSE [e |-> e1, call |-> FALSE, arg |-> Undefined]

\* whenWith( predicate )( when( ... )( listener ) ): compare the selector result
\* with lastResult, remember it, and only if it differs go on to the inner
\* `when`, handing it the result.
whenWith(e, m) ==
  LET result == getResult(m, e)
      isTrue == result # e.lastResult
      e1 == [e EXCEPT !.lastResult = result]
      inner == when(e1, m.storeObjs)
  IN  IF isTrue
        THEN [e |-> inner.e, call |-> inner.call, arg |-> result]
        ELSE [e |-> e1, call |-> FALSE, arg |-> Undefined]

(* ------------------------------ withSelect ---------------------------- *)
\* `{}`: the initial this.state and this.proxyProps
EmptyObject == [n \in {} |-> Undefined]

\* the own props a ComponentWithSelect is given
SelectProps ==
  { [n \in {"min"} \cup extra |-> IF n = "min" THEN Num(v) ELSE Str("own")] :
      v \in 1..MaxState, extra \in {{}, {"label"}} }

\* The functions handed to withSelect, reading the store of 'k1':
\*   value:  ( select ) => ( { value: select( 'k1' ).get() } )
\*   test:   ( select, props ) => ( { ok: select( 'k1' ).test( props.min ) } )
\*   sparse: as value, but an object without keys while get() is 0
MapStateFns == {"value", "test", "sparse"}
mapStateToProps(map, m, props) ==
  LET get == createStateSelector(m.storeObjs, select(m, "k1").fns["get"], <<>>)
      test == createStateSelector(m.storeObjs, select(m, "k1").fns["test"],
                                  <<props["min"][2]>>)
  IN  CASE map = "test" -> [n \in {"ok"} |-> test]
        [] map = "sparse" /\ get = Num(0) -> EmptyObject
        [] OTHER -> [n \in {"value"} |-> get]

\* isEqualShallow( a, b ): the same keys, each with the identical value
isEqualShallow(a, b) ==
  /\ \A key \in DOMAIN b : key \in DOMAIN a /\ a[key] = b[key]
  /\ Cardinality(DOMAIN a) = Cardinality(DOMAIN b)

\* this.setState( newState ): the keys of newState are merged into the state
setState(state, newState) ==
  [n \in DOMAIN state \cup DOMAIN newState |->
     IF n \in DOMAIN newState THEN newState[n] ELSE state[n]]

\* a runSelection that sets the state after every selection
runSelection_alwaysSets(m, c, props) ==
  LET newState == mapStateToProps(c.map, m, props)
  IN  [c EXCEPT !.runs = @ + 1, !.ranWith = props, !.sets = @ + 1,
                !.state = setState(@, newState)]

\* runSelection( props = this.props )
runSelection(m, c, props) ==
  LET newState == mapStateToProps(c.map, m, props)
  IN  IF ~isEqualShallow(newState, c.state)
        THEN [c EXCEPT !.runs = @ + 1, !.ranWith = props, !.sets = @ + 1,
                       !.state = setState(@, newState)]
        ELSE [c EXCEPT !.runs = @ + 1, !.ranWith = props]

\* no ComponentWithSelect instance
NoSelect ==
  [mounted |-> FALSE, map |-> "", props |-> EmptyObject, state |-> EmptyObject,
   unsubscribe |-> 0, op |-> "", runs |-> 0, sets |-> 0, ranWith |-> EmptyObject]

\* constructor of ComponentWithSelect: this.state = {}
constructor(map, props) ==
  [NoSelect EXCEPT !.mounted = TRUE, !.map = map, !.props = props]

(* ------------------------- the listener list -------------------------- *)
RECURSIVE createBoundAction(_, _, _)

\* a listener of the edit-post wiring that closes the sidebar whatever the
\* selector returned
collapseSidebar_always(m, isSmall) ==
  LET closeGeneralSidebar == dispatch(m, "core/edit-post").fns["closeGeneralSidebar"]
      m1 == [m EXCEPT !.sent = Append(@, [key |-> "core/edit-post",
                                           name |-> "closeGeneralSidebar",
                                           args |-> <<>>])]
  IN  createBoundAction(m1, closeGeneralSidebar, <<>>)

\* The listener of the edit-post wiring:
\* ( isSmall ) => { if ( isSmall ) { dispatch( 'core/edit-post' ).closeGeneralSidebar(); } }
collapseSidebar(m, isSmall) ==
  IF Truthy(isSmall)
    THEN LET closeGeneralSidebar ==
               dispatch(m, "core/edit-post").fns["closeGeneralSidebar"]
             m1 == [m EXCEPT !.sent = Append(@, [key |-> "core/edit-post",
                                                  name |-> "closeGeneralSidebar",
                                                  args |-> <<>>])]
         IN  createBoundAction(m1, closeGeneralSidebar, <<>>)
    ELSE m

\* The body of a listener handed to subscribe.  'f' and 'g' only record that
\* they ran; 'runSelection' is the bound method of the ComponentWithSelect.
runListener(m, fn, arg) ==
  CASE fn = "runSelection" ->
         [m EXCEPT !.comp = runSelection(m, m.comp, m.comp.props)]
    [] fn = "collapseSidebar" -> collapseSidebar(m, arg)
    [] OTHER -> m

\* One entry of `listeners`, called by globalListener with no argument.
callListener(e, m) ==
  CASE e.kind = "plain" -> [e |-> e, call |-> TRUE, arg |-> Undefined]
    [] e.kind = "state" ->
         [e |-> when(e, m.storeObjs).e, call |-> when(e, m.storeObjs).call,
          arg |-> Undefined]
    [] OTHER -> whenWith(e, m)

\* globalListener: listeners.forEach( listener => listener() )
RECURSIVE forEachListener(_, _)
forEachListener(m, i) ==
  IF i > Len(m.listeners) THEN m
  ELSE LET r == callListener(m.listeners[i], m)
           s == m.listeners[i].sub
           m1 == [m EXCEPT !.listeners[i] = r.e,
                           !.invoked[s] = IF r.call THEN @ + 1 ELSE @,
                           !.argOf[s] = IF r.call THEN r.arg ELSE @]
           m2 == IF r.call THEN runListener(m1, m.listeners[i].fn, r.arg) ELSE m1
       IN  forEachListener(m2, i + 1)

globalListener(m) == forEachListener(m, 1)

\* Redux store.dispatch( action ): reduce, then call every store listener.
RECURSIVE notifyStore(_, _, _)
notifyStore(m, storeListeners, i) ==
  IF i > Len(storeListeners) THEN m
  ELSE notifyStore(globalListener(m), storeListeners, i + 1)

storeDispatch(m, s, action) ==
  LET obj == m.storeObjs[s]
      m1 == [m EXCEPT !.storeObjs[s].state = Reduce(obj.reducer, obj.state, action)]
  IN  notifyStore(m1, obj.listeners, 1)

\* createStore( reducer ) followed by store.subscribe( globalListener )
createStore(reducer) ==
  [reducer |-> reducer, state |-> Reduce(reducer, 0, ActInit),
   listeners |-> <<"globalListener">>]

\* registerReducer( reducerKey, reducer )
registerReducer(m, reducerKey, reducer) ==
  LET store == Len(m.storeObjs) + 1
  IN  [m EXCEPT !.storeObjs = Append(@, createStore(reducer)),
                !.stores[reducerKey] = store,
                !.ret = store]

\* a registerSelectors that adds to the selectors already registered for the
\* key instead of replacing them
registerSelectors_merges(m, reducerKey, newSelectors) ==
  LET store == m.stores[reducerKey]
  IN  [m EXCEPT !.selectors[reducerKey] =
         [def |-> TRUE,
          fns |-> [n \in SelNames |->
                     IF newSelectors[n] = NoFn THEN @.fns[n]
                     ELSE [fn |-> newSelectors[n], store |-> store]]]]

\* registerSelectors( reducerKey, newSelectors )
registerSelectors(m, reducerKey, newSelectors) ==
  LET store == m.stores[reducerKey]
  IN  [m EXCEPT !.selectors[reducerKey] =
         [def |-> TRUE,
          fns |-> [n \in DOMAIN newSelectors |->
                     IF newSelectors[n] = NoFn THEN NoEntry
                     ELSE [fn |-> newSelectors[n], store |-> store]]]]

\* registerActions( reducerKey, newActions )
registerActions(m, reducerKey, newActions) ==
  LET store == m.stores[reducerKey]
  IN  [m EXCEPT !.actions[reducerKey] =
         [def |-> TRUE,
          fns |-> [n \in DOMAIN newActions |->
                     IF newActions[n] = NoFn THEN NoEntry
                     ELSE [fn |-> newActions[n], store |-> store]]]]

\* a registerStore that checks for the reducer only after it has registered
\* the actions and selectors
registerStore_checksLate(m, reducerKey, options) ==
  LET m1 == IF options.actions.given
              THEN registerActions(m, reducerKey, options.actions.map)
              ELSE m
      m2 == IF options.selectors.given
              THEN registerSelectors(m1, reducerKey, options.selectors.map)
              ELSE m1
  IN  IF options.reducer = NoFn
        THEN [m2 EXCEPT !.thrown = "TypeError"]
        ELSE registerReducer(m2, reducerKey, options.reducer)

\* registerStore( reducerKey, options )
registerStore(m, reducerKey, options) ==
  IF options.reducer = NoFn
    THEN [m EXCEPT !.thrown = "TypeError"]
    ELSE LET m1 == registerReducer(m, reducerKey, options.reducer)
             m2 == IF options.actions.given
                     THEN registerActions(m1, reducerKey, options.actions.map)
                     ELSE m1
             m3 == IF options.selectors.given
                     THEN registerSelectors(m2, reducerKey, options.selectors.map)
                     ELSE m2
         IN  m3

\* a bound action that dispatches to every registered store
RECURSIVE dispatchToAll(_, _, _)
dispatchToAll(m, action, s) ==
  IF s > Len(m.storeObjs) THEN m
  ELSE dispatchToAll(storeDispatch(m, s, action), action, s + 1)

createBoundAction_broadcasts(m, entry, args) ==
  dispatchToAll(m, ApplyCreator(entry.fn, args), 1)

\* createBoundAction: ( ...args ) => store.dispatch( action( ...args ) )
createBoundAction(m, entry, args) ==
  storeDispatch(m, entry.store, ApplyCreator(entry.fn, args))

\* an unsubscribe that looks for the caller's listener, which is in the list
\* only when subscribe pushed it unwrapped
without_unwrappedOnly(list, fid) ==
  SelectSeq(list, LAMBDA e : e.fid # fid \/ e.fid[1] = "wrapper")

\* lodash without( listeners, listener ): every element identical to it goes
without(list, fid) == SelectSeq(list, LAMBDA e : e.fid # fid)

\* the selector argument of subscribe: absent, a name, or [ name, arg ]
NoSelector == [name |-> "", args |-> <<>>]

\* The wrapped listener subscribe pushes, as a closure with its captured
\* lastState / lastResult.  `sub` numbers the subscribe call; `fid` is the
\* identity of the function pushed: the caller's own function for
\* subscribe( listener ), a fresh wrapper otherwise.
subscribe(m, sub, reducerKey, selector, listener) ==
  LET plain == [sub |-> sub, fid |-> <<"listener", listener>>, kind |-> "plain",
                fn |-> listener, key |-> "", store |-> NoStore, name |-> "", args |-> <<>>,
                lastState |-> 0, lastResult |-> Undefined]
      store == m.stores[reducerKey]
      byState == [plain EXCEPT !.fid = <<"wrapper", sub>>, !.kind = "state",
                               !.key = reducerKey, !.store = store,
                               !.lastState = m.storeObjs[store].state]
      bySel0 == [byState EXCEPT !.kind = "selector", !.name = selector.name,
                                !.args = selector.args]
      bySel == [bySel0 EXCEPT !.lastResult = getResult(m, bySel0)]
      entry == IF reducerKey = "" THEN plain
               ELSE IF selector.name = "" THEN byState ELSE bySel
  IN  [m EXCEPT !.listeners = Append(@, entry)]

(* ----------------------- withSelect: lifecycle ------------------------ *)
\* componentWillMount: this.subscribe(), then this.runSelection()
componentWillMount(m, sub) ==
  LET m1 == subscribe(m, sub, "", NoSelector, "runSelection")
      c == [m1.comp EXCEPT !.unsubscribe = sub, !.op = "mount"]
  IN  [m1 EXCEPT !.comp = runSelection(m1, c, c.props)]

\* componentWillReceiveProps( nextProps ), after which React assigns
\* this.props = nextProps
componentWillReceiveProps(m, nextProps) ==
  LET c == [m.comp EXCEPT !.op = "receive"]
      c1 == IF ~isEqualShallow(nextProps, c.props)
              THEN runSelection(m, c, nextProps)
              ELSE c
  IN  [m EXCEPT !.comp = [c1 EXCEPT !.props = nextProps]]

\* componentWillUnmount: this.unsubscribe()
componentWillUnmount(m, fid) ==
  [m EXCEPT !.listeners = without(@, fid),
            !.comp = [NoSelect EXCEPT !.op = "unmount"]]

(* ---------------------------- withDispatch ---------------------------- *)
\* the own props a ComponentWithDispatch is given
DispatchProps ==
  { [n \in {"key", "extra"} |-> IF n = "key" THEN Str(k) ELSE Bool(b)] :
      k \in Keys, b \in BOOLEAN }

\* The functions handed to withDispatch.  The dispatchers they return are the
\* bound action creators of the registry:
\*   byKey: ( dispatch, props ) => props.extra ?
\*            { onSet: dispatch( props.key ).set, onInc: dispatch( props.key ).inc } :
\*            { onSet: dispatch( props.key ).set }
\*   fixed: ( dispatch ) => ( { onSet: dispatch( 'k1' ).set } )
MapDispatchFns == {"byKey", "fixed"}
mapDispatchToProps(map, m, props) ==
  LET key == IF map = "fixed" THEN "k1" ELSE props["key"][2]
      names == IF map = "byKey" /\ Truthy(props["extra"])
                 THEN {"onSet", "onInc"} ELSE {"onSet"}
  IN  [n \in names |->
         dispatch(m, key).fns[IF n = "onSet" THEN "set" ELSE "inc"]]

\* no ComponentWithDispatch instance; the constructor sets this.proxyProps = {}
NoDispatch ==
  [mounted |-> FALSE, map |-> "", props |-> EmptyObject,
   proxyProps |-> EmptyObject, binds |-> 0, rendered |-> EmptyObject,
   calls |-> <<>>]

\* this.proxyDispatch.bind( this, propName ): a new function each time.
\* `serial` tells the functions bound for one name apart; `made` notes the
\* props the component had when it was bound.
bind(propName, serial, props) ==
  [propName |-> propName, serial |-> serial, made |-> props]

\* a setProxyProps that binds a new function for every name at every call
setProxyProps_rebinds(c, m, props) ==
  LET propsToDispatchers == mapDispatchToProps(c.map, m, props)
  IN  [c EXCEPT !.binds = @ + 1,
                !.proxyProps = [propName \in DOMAIN propsToDispatchers |->
                                  bind(propName, c.binds + 1, props)]]

\* setProxyProps( props )
setProxyProps(c, m, props) ==
  LET propsToDispatchers == mapDispatchToProps(c.map, m, props)
      fresh == DOMAIN propsToDispatchers \ DOMAIN c.proxyProps
  IN  [c EXCEPT !.binds = IF fresh = {} THEN @ ELSE @ + 1,
                !.proxyProps = [propName \in DOMAIN propsToDispatchers |->
                                  IF propName \in DOMAIN c.proxyProps
                                    THEN c.proxyProps[propName]
                                    ELSE bind(propName, c.binds + 1, props)]]

\* a proxyDispatch that looks the dispatcher up for the props the component
\* had when the function was bound
proxyDispatch_propsAtBind(m, c, propName, args) ==
  LET dispatcher == mapDispatchToProps(c.map, m, c.proxyProps[propName].made)[propName]
  IN  [m |-> createBoundAction(m, dispatcher, args),
       calls |-> <<[dispatcher |-> dispatcher, args |-> args]>>]

\* proxyDispatch( propName, ...args ):
\* mapDispatchToProps( dispatch, this.props )[ propName ]( ...args )
proxyDispatch(m, c, propName, args) ==
  LET dispatcher == mapDispatchToProps(c.map, m, c.props)[propName]
  IN  [m |-> createBoundAction(m, dispatcher, args),
       calls |-> <<[dispatcher |-> dispatcher, args |-> args]>>]

\* render of ComponentWithDispatch: { ...this.props, ...this.proxyProps }
renderWithDispatch(c) ==
  [n \in DOMAIN c.props \cup DOMAIN c.proxyProps |->
     IF n \in DOMAIN c.proxyProps THEN c.proxyProps[n] ELSE c.props[n]]

(* ----------------------- PreserveScrollInReorder ---------------------- *)
\* block UIDs, and the identities of the blockOrder arrays
Uids == {"a", "b"}
Orders == {"order1", "order2"}
\* the props the component is given: blockOrder, and selectionStart, which is
\* null or a block UID
ScrollProps ==
  [blockOrder : Orders, selectionStart : {Undefined} \cup {Str(u) : u \in Uids}]
\* the block nodes in the document, each with its offset in the scrolled
\* content
BlockLayouts == UNION {[present -> 0..MaxPos] : present \in SUBSET Uids}

\* no PreserveScrollInReorder instance.  this.previousOffset is undefined
\* until setPreviousOffset assigns it.
NoScroll ==
  [mounted |-> FALSE, props |-> [blockOrder |-> "order1", selectionStart |-> Undefined],
   previousOffset |-> Undefined, blocks |-> EmptyObject, container |-> FALSE,
   scrollTop |-> 0]

\* dom.getBlockDOMNode( uid ): whether the block has a node
getBlockDOMNode(c, uid) == uid[2] \in DOMAIN c.blocks

\* blockNode.getBoundingClientRect().top: the node's offset from the top of
\* the viewport, that is its offset in the content less what is scrolled
getBoundingClientRectTop(c, uid) == c.blocks[uid[2]] - c.scrollTop

\* setPreviousOffset( selectionStart )
setPreviousOffset(c, selectionStart) ==
  IF ~getBlockDOMNode(c, selectionStart) THEN c
  ELSE [c EXCEPT !.previousOffset = Num(getBoundingClientRectTop(c, selectionStart))]

\* componentWillUpdate( nextProps )
componentWillUpdate(c, nextProps) ==
  IF nextProps.blockOrder # c.props.blockOrder /\ Truthy(nextProps.selectionStart)
    THEN setPreviousOffset(c, nextProps.selectionStart)
    ELSE c

\* restorePreviousOffset()
restorePreviousOffset(c) ==
  LET selectionStart == c.props.selectionStart
      scrollContainer == c.container
      c1 == IF scrollContainer /\ getBlockDOMNode(c, selectionStart)
              THEN [c EXCEPT !.scrollTop =
                      c.scrollTop + getBoundingClientRectTop(c, selectionStart)
                        - c.previousOffset[2]]
              ELSE c
  IN  [c1 EXCEPT !.previousOffset = Undefined]

\* componentDidUpdate()
componentDidUpdate(c) ==
  IF Truthy(c.previousOffset) THEN restorePreviousOffset(c) ELSE c

(* ----------------------------- ifCondition ---------------------------- *)
\* props objects: functions from the names of the props present to values
NoProps == [n \in {} |-> Undefined]
PropsSet ==
  UNION {[names -> {Str("own")}] : names \in SUBSET {"isEven", "label"}}
WithNumber(props, number) ==
  [n \in DOMAIN props \cup {"number"} |-> IF n = "number" THEN Num(number) ELSE props[n]]
OwnProps == {WithNumber(p, n) : p \in PropsSet, n \in 0..MaxNumber}

\* The predicates handed to ifCondition: the README's ( { number } ) =>
\* number % 2 === 0, and two that return a prop itself, which is truthy or
\* falsy without being a boolean.
Predicates == {"isEven", "number", "label"}
ApplyPredicate(predicate, props) ==
  CASE predicate = "isEven" -> Bool(props["number"][2] % 2 = 0)
    [] predicate = "number" -> props["number"]
    [] OTHER -> IF "label" \in DOMAIN props THEN props["label"] ELSE Undefined

\* the second argument of ifCondition: absent, or a string
PropNames == {Undefined, Str(""), Str("isEven"), Str("isOk")}

\* what a component renders: null, or an element of WrappedComponent
Null == [element |-> "null", props |-> NoProps]
Element(props) == [element |-> "WrappedComponent", props |-> props]

\* { ...props, [ propName ]: isOk }
Spread(props, propName, isOk) ==
  [n \in DOMAIN props \cup {propName} |-> IF n = propName THEN isOk ELSE props[n]]

\* an ifCondition that renders only when the predicate returned `true` itself
ifCondition_strictTrue(predicate, propName, props) ==
  LET isOk == ApplyPredicate(predicate, props)
  IN  IF ~Truthy(propName) /\ isOk # Bool(TRUE) THEN Null
      ELSE IF Truthy(propName) THEN Element(Spread(props, propName[2], isOk))
      ELSE Element(props)

\* an ifCondition that renders nothing whenever the predicate fails
ifCondition_alwaysGuards(predicate, propName, props) ==
  LET isOk == ApplyPredicate(predicate, props)
  IN  IF ~Truthy(isOk) THEN Null
      ELSE IF Truthy(propName) THEN Element(Spread(props, propName[2], isOk))
      ELSE Element(props)

\* EnhancedComponent( props ) of ifCondition( predicate, propName )( WrappedComponent )
ifCondition(predicate, propName, props) ==
  LET isOk == ApplyPredicate(predicate, props)
  IN  IF ~Truthy(propName) /\ ~Truthy(isOk) THEN Null
      ELSE IF Truthy(propName) THEN Element(Spread(props, propName[2], isOk))
      ELSE Element(props)

(* ------------------------------ actions ------------------------------- *)
Listeners == {"f", "g"}
NoLast ==
  [op |-> "none", key |-> "", name |-> "", args |-> <<>>, options |-> NoOptions,
   store |-> NoStore, thrown |-> "", ret |-> Undefined]

NoHoc ==
  [predicate |-> "", propName |-> Undefined, props |-> NoProps, out |-> Null]

Init ==
  /\ storeObjs = <<>>
  /\ stores = [k \in AllKeys |-> NoStore]
  /\ selectors = [k \in AllKeys |-> Unregistered(SelNames)]
  /\ actions = [k \in AllKeys |-> Unregistered(ActNames)]
  /\ listeners = <<>>
  /\ subs = <<>>
  /\ last = NoLast
  /\ invoked = [s \in 1..MaxSubs |-> 0]
  /\ argOf = [s \in 1..MaxSubs |-> Undefined]
  /\ sent = <<>>
  /\ withSel = NoSelect
  /\ withDisp = NoDispatch
  /\ scroll = NoScroll
  /\ hoc = NoHoc

\* The module at the start of a call: the record of the previous call's
\* listener invocations is cleared.
Fresh ==
  [Module EXCEPT !.invoked = [s \in 1..MaxSubs |-> 0],
                 !.argOf = [s \in 1..MaxSubs |-> Undefined],
                 !.sent = <<>>,
                 !.comp = [@ EXCEPT !.op = "", !.runs = 0, !.sets = 0,
                                    !.ranWith = EmptyObject]]

Commit(m) ==
  /\ storeObjs' = m.storeObjs
  /\ stores' = m.stores
  /\ selectors' = m.selectors
  /\ actions' = m.actions
  /\ listeners' = m.listeners
  /\ invoked' = m.invoked
  /\ argOf' = m.argOf
  /\ sent' = m.sent
  /\ withSel' = m.comp

\* the selector names the subscriptions in `listeners` look up under a key
InUse(reducerKey) ==
  {listeners[i].name : i \in {j \in DOMAIN listeners :
      listeners[j].kind = "selector" /\ listeners[j].key = reducerKey}}

\* Whether each selector subscription still reads, through the registry, the
\* selector it read when it subscribed, bound to the store it watches.
KeepFixed(m) ==
  [s \in DOMAIN subs |->
     IF \E i \in DOMAIN listeners : listeners[i].sub = s /\ listeners[i].kind = "selector"
       THEN LET e == listeners[CHOOSE i \in DOMAIN listeners : listeners[i].sub = s]
            IN  [subs[s] EXCEPT !.fixed =
                   @ /\ m.selectors[e.key].fns[e.name] = selectors[e.key].fns[e.name]]
       ELSE subs[s]]

RegisterReducer(reducerKey, reducer) ==
  /\ Len(storeObjs) < MaxStores
  /\ LET m == registerReducer(Fresh, reducerKey, reducer)
     IN  /\ Commit(m)
         /\ last' = NoLast
  /\ UNCHANGED <<subs, otherVars>>

\* Callers keep the selectors that subscriptions look up registered: a
\* subscription whose selector is gone throws from inside globalListener.
RegisterSelectors(reducerKey, newSelectors) ==
  /\ InUse(reducerKey) \subseteq MapNames(newSelectors)
  /\ LET m == registerSelectors(Fresh, reducerKey, newSelectors)
     IN  /\ Commit(m)
         /\ subs' = KeepFixed(m)
         /\ last' = NoLast
  /\ UNCHANGED otherVars

RegisterActions(reducerKey, newActions) ==
  /\ LET m == registerActions(Fresh, reducerKey, newActions)
     IN  /\ Commit(m)
         /\ last' = NoLast
  /\ UNCHANGED <<subs, otherVars>>

RegisterStore(reducerKey, options) ==
  /\ options.reducer # NoFn => Len(storeObjs) < MaxStores
  /\ (options.reducer # NoFn /\ options.selectors.given)
       => InUse(reducerKey) \subseteq MapNames(options.selectors.map)
  /\ LET m == registerStore(Fresh, reducerKey, options)
     IN  /\ Commit(m)
         /\ subs' = KeepFixed(m)
         /\ last' = [NoLast EXCEPT !.op = "registerStore", !.key = reducerKey,
                                   !.options = options, !.thrown = m.thrown,
                                   !.store = m.ret]
  /\ UNCHANGED otherVars

\* subscribe( listener ) / subscribe( reducerKey, listener ) /
\* subscribe( reducerKey, selector, listener ).  A call for a key without a
\* store, or for a selector that is not registered, throws before it pushes
\* anything.
Subscribe(reducerKey, selector, listener) ==
  /\ Len(subs) < MaxSubs
  /\ reducerKey # "" => stores[reducerKey] # NoStore
  /\ selector.name # "" =>
       /\ reducerKey # ""
       /\ select(Module, reducerKey).fns[selector.name].fn # NoFn
       /\ select(Module, reducerKey).fns[selector.name].store # NoStore
  /\ LET sub == Len(subs) + 1
         m == subscribe(Fresh, sub, reducerKey, selector, listener)
         entry == m.listeners[Len(m.listeners)]
     IN  /\ Commit(m)
         /\ subs' = Append(subs,
              [fid |-> entry.fid, kind |-> entry.kind, called |-> FALSE,
               fixed |-> /\ entry.kind = "selector"
                         /\ selectors[reducerKey].fns[selector.name].store = entry.store])
         /\ last' = NoLast
  /\ UNCHANGED otherVars

\* the unsubscribe function subscribe returned for call number `sub`
Unsubscribe(sub) ==
  /\ sub \in DOMAIN subs
  /\ Commit([Fresh EXCEPT !.listeners = without(@, subs[sub].fid)])
  /\ subs' = [subs EXCEPT ![sub].called = TRUE]
  /\ last' = NoLast
  /\ UNCHANGED otherVars

\* store.dispatch( action ) on a store object registerReducer returned
StoreDispatch(store, action) ==
  /\ store \in DOMAIN storeObjs
  /\ LET m == storeDispatch(Fresh, store, action)
     IN  /\ Commit(m)
         /\ last' = [NoLast EXCEPT !.op = "dispatch", !.store = store]
  /\ UNCHANGED <<subs, otherVars>>

\* dispatch( reducerKey )[ name ]( ...args )
DispatchAction(reducerKey, name, args) ==
  /\ dispatch(Module, reducerKey).fns[name].fn # NoFn
  /\ dispatch(Module, reducerKey).fns[name].store # NoStore
  /\ LET entry == dispatch(Module, reducerKey).fns[name]
         m == createBoundAction(Fresh, entry, args)
     IN  /\ Commit(m)
         /\ last' = [NoLast EXCEPT !.op = "boundAction", !.key = reducerKey,
                                   !.name = name, !.args = args,
                                   !.store = entry.store]
  /\ UNCHANGED <<subs, otherVars>>

\* select( reducerKey )[ name ]( ...args )
Select(reducerKey, name, args) ==
  /\ select(Module, reducerKey).fns[name].fn # NoFn
  /\ select(Module, reducerKey).fns[name].store # NoStore
  /\ Commit(Fresh)
  /\ last' = [NoLast EXCEPT !.op = "select", !.key = reducerKey, !.name = name,
                            !.args = args,
                            !.ret = createStateSelector(storeObjs,
                                      select(Module, reducerKey).fns[name], args)]
  /\ UNCHANGED <<subs, otherVars>>

\* the selector arguments the subscriptions of the runs below use:
\* 'get', and [ 'test', 1 ]
SubSelectors ==
  {[name |-> "get", args |-> <<>>], [name |-> "test", args |-> <<1>>]}
\* the options of the runs that exercise the listener list
SubOptions ==
  {[reducer |-> "counter", actions |-> AbsentActions, selectors |-> sel] :
     sel \in {AbsentSelectors, Given(AllSelectors)}}

\* Registration, selection and dispatch through the registry.
Next ==
  \/ \E k \in Keys : \E o \in OptionsSet(k) : RegisterStore(k, o)
  \/ RegisterActions("k2", AllActions)
  \/ \E s \in 1..MaxStores : StoreDispatch(s, ActInc)
  \/ \E k \in Keys, n \in ActNames, args \in ArgLists : DispatchAction(k, n, args)
  \/ \E k \in Keys, n \in SelNames, args \in ArgLists : Select(k, n, args)

\* Subscription, unsubscription and notification.
NextSub ==
  \/ \E o \in SubOptions : RegisterStore("k1", o)
  \/ RegisterReducer("k2", "sticky")
  \/ RegisterSelectors("k1", OtherSelectors)
  \/ \E f \in Listeners : Subscribe("", NoSelector, f)
  \/ Subscribe("k1", NoSelector, "f")
  \/ \E sel \in SubSelectors : Subscribe("k1", sel, "f")
  \/ \E s \in 1..MaxSubs : Unsubscribe(s)
  \/ \E s \in 1..MaxStores, a \in ActionValues : StoreDispatch(s, a)

\* Rendering a component made by ifCondition( predicate, propName ).
Render(predicate, propName, props) ==
  /\ hoc' = [predicate |-> predicate, propName |-> propName, props |-> props,
             out |-> ifCondition(predicate, propName, props)]
  /\ UNCHANGED <<dataVars, withDisp, scroll>>

NextIf ==
  \E predicate \in Predicates, propName \in PropNames, props \in OwnProps :
    Render(predicate, propName, props)

(* -------------------------- withSelect: steps ------------------------- *)
\* the one description of 'k1' the component runs register
FullOptions ==
  [reducer |-> "counter", actions |-> Given(AllActions),
   selectors |-> Given(AllSelectors)]

\* Mounting a component made by withSelect( map ).  mapStateToProps calls
\* select( 'k1' ).get / .test, so the selectors are registered first.
MountSelect(map, props) ==
  /\ ~withSel.mounted
  /\ Len(subs) < MaxSubs
  /\ KeyNames(selectors["k1"]) = SelNames
  /\ LET sub == Len(subs) + 1
         m == componentWillMount([Fresh EXCEPT !.comp = constructor(map, props)], sub)
         entry == m.listeners[Len(m.listeners)]
     IN  /\ Commit(m)
         /\ subs' = Append(subs, [fid |-> entry.fid, kind |-> entry.kind,
                                  called |-> FALSE, fixed |-> FALSE])
  /\ last' = NoLast
  /\ UNCHANGED otherVars

\* The parent renders the mounted component again, with nextProps.
ReceiveProps(nextProps) ==
  /\ withSel.mounted
  /\ Commit(componentWillReceiveProps(Fresh, nextProps))
  /\ last' = NoLast
  /\ UNCHANGED <<subs, otherVars>>

UnmountSelect ==
  /\ withSel.mounted
  /\ Commit(componentWillUnmount(Fresh, subs[withSel.unsubscribe].fid))
  /\ subs' = [subs EXCEPT ![withSel.unsubscribe].called = TRUE]
  /\ last' = NoLast
  /\ UNCHANGED otherVars

\* A component made by withSelect, over the store of 'k1'.
NextSelect ==
  \/ RegisterStore("k1", FullOptions)
  \/ \E map \in MapStateFns, props \in SelectProps : MountSelect(map, props)
  \/ \E nextProps \in SelectProps : ReceiveProps(nextProps)
  \/ UnmountSelect
  \/ \E s \in 1..MaxStores, a \in ActionValues : StoreDispatch(s, a)

(* ------------------------- withDispatch: steps ------------------------ *)
\* Mounting a component made by withDispatch( map ): constructor,
\* componentWillMount, render.  mapDispatchToProps reads dispatch( key ).set
\* and .inc, so the actions of both keys are registered first.
MountDispatch(map, props) ==
  /\ ~withDisp.mounted
  /\ \A k \in Keys : KeyNames(actions[k]) = ActNames
  /\ LET c == [NoDispatch EXCEPT !.mounted = TRUE, !.map = map, !.props = props]
         c1 == setProxyProps(c, Module, props)
     IN  withDisp' = [c1 EXCEPT !.rendered = renderWithDispatch(c1)]
  /\ Commit(Fresh)
  /\ last' = NoLast
  /\ UNCHANGED <<subs, scroll, hoc>>

\* A re-render with nextProps (which may be the props it has):
\* componentWillUpdate( nextProps ), this.props = nextProps, render.
UpdateDispatch(nextProps) ==
  /\ withDisp.mounted
  /\ LET c1 == setProxyProps(withDisp, Module, nextProps)
         c2 == [c1 EXCEPT !.props = nextProps, !.calls = <<>>]
     IN  /\ c1.binds <= MaxBinds
         /\ withDisp' = [c2 EXCEPT !.rendered = renderWithDispatch(c2)]
  /\ Commit(Fresh)
  /\ last' = NoLast
  /\ UNCHANGED <<subs, scroll, hoc>>

UnmountDispatch ==
  /\ withDisp.mounted
  /\ withDisp' = NoDispatch
  /\ Commit(Fresh)
  /\ last' = NoLast
  /\ UNCHANGED <<subs, scroll, hoc>>

\* The wrapped component calls the function it was rendered with under
\* propName.
InvokeProxy(propName, args) ==
  /\ withDisp.mounted
  /\ propName \in DOMAIN withDisp.proxyProps
  /\ LET r == proxyDispatch(Fresh, withDisp, propName, args)
     IN  /\ Commit(r.m)
         /\ withDisp' = [withDisp EXCEPT !.calls = r.calls]
         /\ last' = [NoLast EXCEPT !.op = "proxy", !.name = propName, !.args = args]
  /\ UNCHANGED <<subs, scroll, hoc>>

\* A component made by withDispatch, over the stores of both keys.
NextDispatch ==
  \/ RegisterStore("k1", FullOptions)
  \/ \E o \in OptionsSet("k2") : RegisterStore("k2", o)
  \/ \E map \in MapDispatchFns, props \in DispatchProps : MountDispatch(map, props)
  \/ \E nextProps \in DispatchProps : UpdateDispatch(nextProps)
  \/ UnmountDispatch
  \/ \E propName \in {"onSet", "onInc"}, args \in ArgLists : InvokeProxy(propName, args)

(* -------------------- PreserveScrollInReorder: steps ------------------ *)
\* The component is mounted into a document with the given blocks, inside a
\* scroll container or not.
MountScroll(props, blocks, container) ==
  /\ ~scroll.mounted
  /\ scroll' = [NoScroll EXCEPT !.mounted = TRUE, !.props = props,
                                !.blocks = blocks, !.container = container]
  /\ UNCHANGED <<dataVars, withDisp, hoc>>

\* One update: componentWillUpdate( nextProps ), then React assigns the props
\* and renders the document, in which the blocks are at nextBlocks, then
\* componentDidUpdate().  The scroll positions are those the container can
\* take without clamping.
UpdateScroll(nextProps, nextBlocks) ==
  /\ scroll.mounted
  /\ LET c1 == componentWillUpdate(scroll, nextProps)
         c2 == [c1 EXCEPT !.props = nextProps, !.blocks = nextBlocks]
         c3 == componentDidUpdate(c2)
     IN  /\ c3.scrollTop \in 0..MaxScroll
         /\ scroll' = c3
  /\ UNCHANGED <<dataVars, withDisp, hoc>>

\* The user scrolls the container.
UserScroll(scrollTop) ==
  /\ scroll.mounted
  /\ scroll.container
  /\ scroll' = [scroll EXCEPT !.scrollTop = scrollTop]
  /\ UNCHANGED <<dataVars, withDisp, hoc>>

NextScroll ==
  \/ \E props \in ScrollProps, blocks \in BlockLayouts, container \in BOOLEAN :
       MountScroll(props, blocks, container)
  \/ \E nextProps \in ScrollProps, nextBlocks \in BlockLayouts :
       UpdateScroll(nextProps, nextBlocks)
  \/ \E scrollTop \in 0..MaxScroll : UserScroll(scrollTop)

(* ------------------------ edit-post store wiring ---------------------- *)
\* the store the viewport module registers
ViewportOptions ==
  [reducer |-> "viewport", actions |-> AbsentActions,
   selectors |-> Given([n \in {"isViewportMatch"} |-> "isViewportMatch"])]
\* registerStore( 'core/edit-post', { reducer, actions, selectors } )
EditPostOptions ==
  [reducer |-> "edit-post",
   actions |-> Given([n \in {"closeGeneralSidebar"} |-> "closeGeneralSidebar"]),
   selectors |-> Given([n \in {"hasOpenSidebar"} |-> "hasOpenSidebar"])]
\* [ 'isViewportMatch', '< medium' ]
IsSmallSelector == [name |-> "isViewportMatch", args |-> <<"< medium">>]

\* The wiring module is loaded, once: registerStore, then subscribe to the
\* viewport store, which is registered by then.
LoadEditPost ==
  /\ stores["core/viewport"] # NoStore
  /\ stores["core/edit-post"] = NoStore
  /\ Len(storeObjs) < MaxStores
  /\ Len(subs) < MaxSubs
  /\ LET sub == Len(subs) + 1
         m1 == registerStore(Fresh, "core/edit-post", EditPostOptions)
         m2 == subscribe(m1, sub, "core/viewport", IsSmallSelector, "collapseSidebar")
         entry == m2.listeners[Len(m2.listeners)]
     IN  /\ Commit(m2)
         /\ subs' = Append(subs, [fid |-> entry.fid, kind |-> entry.kind,
                                  called |-> FALSE, fixed |-> TRUE])
  /\ last' = NoLast
  /\ UNCHANGED otherVars

NextWiring ==
  \/ stores["core/viewport"] = NoStore /\ RegisterStore("core/viewport", ViewportOptions)
  \/ LoadEditPost
  \/ Subscribe("", NoSelector, "f")
  \/ \E s \in 1..MaxStores, a \in ActionValues : StoreDispatch(s, a)
  \/ actions["core/edit-post"].def
       /\ DispatchAction("core/edit-post", "closeGeneralSidebar", <<>>)

Spec == Init /\ [][Next]_vars

SpecWiring == Init /\ [][NextWiring]_vars

SpecScroll == Init /\ [][NextScroll]_vars

SpecDispatch == Init /\ [][NextDispatch]_vars

SpecSelect == Init /\ [][NextSelect]_vars

SpecIf == Init /\ [][NextIf]_vars

SpecSub == Init /\ [][NextSub]_vars

(* --------------------- subscription and notification ------------------ *)
\* the steps that dispatch an action to a store
IsDispatch(l) == l.op \in {"dispatch", "boundAction"}

\* C1: a listener subscribed with subscribe( reducerKey, listener ) runs in a
\* notification pass only if the state of the store it subscribed to is not
\* the state it saw at its previous pass (or when it subscribed); a dispatch
\* to another store, or one that leaves the dispatched store's state
\* identical, never runs it.
C1_StateListenerOnlyOnChange ==
  [][IsDispatch(last') =>
       \A i \in DOMAIN listeners :
         listeners[i].kind = "state" =>
           LET e == listeners[i]
               n == invoked'[e.sub]
               target == last'.store
           IN  /\ n <= 1
               /\ n = 1 => storeObjs'[e.store].state # e.lastState
               /\ target # e.store => n = 0
               /\ storeObjs'[target].state = storeObjs[target].state => n = 0]_vars

C1_Witness ==
  /\ IsDispatch(last)
  /\ \E i \in DOMAIN listeners :
       /\ listeners[i].kind = "state"
       /\ invoked[listeners[i].sub] = 1
       /\ Len(storeObjs) = 2

\* C2: a listener subscribed with subscribe( reducerKey, selector, listener )
\* runs in a pass only when the registered selector's result is not the
\* result of its previous pass (or of subscribe time), and then receives the
\* new result; when the registered selector has stayed one function of the
\* watched store's state, it runs on every pass where the result differs.
C2_SelectorListenerOnResultChange ==
  [][IsDispatch(last') =>
       \A i \in DOMAIN listeners :
         listeners[i].kind = "selector" =>
           LET e == listeners[i]
               n == invoked'[e.sub]
               registered == selectors'[e.key].fns[e.name]
               result == ApplySelector(registered.fn,
                                       storeObjs'[registered.store].state, e.args)
           IN  /\ n <= 1
               /\ n = 1 => (result # e.lastResult /\ argOf'[e.sub] = result)
               /\ (subs[e.sub].fixed /\ result # e.lastResult) => n = 1]_vars

C2_Witness ==
  /\ IsDispatch(last)
  /\ \E i \in DOMAIN listeners :
       /\ listeners[i].kind = "selector"
       /\ listeners[i].name = "test"
       /\ invoked[listeners[i].sub] = 1
       /\ argOf[listeners[i].sub] = Bool(TRUE)

\* C3: every listener subscribed with subscribe( listener ) whose own
\* unsubscribe function has not been called runs exactly once in each
\* dispatch, to whichever store and whether or not the state changed.
C3_PlainListenerOncePerDispatch ==
  IsDispatch(last) =>
    \A s \in DOMAIN subs :
      (subs[s].kind = "plain" /\ ~subs[s].called) => invoked[s] = 1

\* C4: once the unsubscribe function of a subscription has been called, no
\* later dispatch runs its listener, whichever form of subscribe made it.
C4_NoCallAfterUnsubscribe ==
  \A s \in DOMAIN subs :
    subs[s].called =>
      /\ invoked[s] = 0
      /\ \A i \in DOMAIN listeners : listeners[i].sub # s

C4_Witness ==
  /\ IsDispatch(last)
  /\ storeObjs[last.store].state # 0
  /\ \E s \in DOMAIN subs : subs[s].called /\ subs[s].kind = "selector"
  /\ \E s \in DOMAIN subs : ~subs[s].called /\ invoked[s] = 1

(* ------------------------------ registry ------------------------------ *)
\* C5: registerStore without options.reducer throws a TypeError and leaves
\* the stores, the selectors, the actions and the listener list as they were,
\* also when options.actions or options.selectors are given.
C5_NoReducerThrowsAndChangesNothing ==
  [][(last'.op = "registerStore" /\ last'.options.reducer = NoFn) =>
       /\ last'.thrown = "TypeError"
       /\ UNCHANGED <<storeObjs, stores, selectors, actions, listeners>>]_vars

C5_Witness ==
  /\ last.op = "registerStore"
  /\ last.options.reducer = NoFn
  /\ last.options.actions.given
  /\ last.options.selectors.given
  /\ last.thrown = "TypeError"
  /\ stores[last.key] # NoStore

\* C6: after registerStore( reducerKey, options ) returns, select( reducerKey )
\* has exactly the names of options.selectors and dispatch( reducerKey ) exactly
\* the names of options.actions, each bound to the store returned; an omitted
\* options.actions (options.selectors) leaves dispatch( reducerKey )
\* (select( reducerKey )) as it was.
C6_RegisterStoreExposesGivenNames ==
  [][(last'.op = "registerStore" /\ last'.thrown = "") =>
       LET k == last'.key
           o == last'.options
           returned == last'.store
       IN  /\ returned = stores'[k]
           /\ returned = Len(storeObjs) + 1
           /\ storeObjs'[returned].reducer = o.reducer
           /\ o.selectors.given =>
                /\ selectors'[k].def
                /\ KeyNames(selectors'[k]) = MapNames(o.selectors.map)
                /\ \A n \in KeyNames(selectors'[k]) :
                     selectors'[k].fns[n] = [fn |-> o.selectors.map[n], store |-> returned]
           /\ o.actions.given =>
                /\ actions'[k].def
                /\ KeyNames(actions'[k]) = MapNames(o.actions.map)
                /\ \A n \in KeyNames(actions'[k]) :
                     actions'[k].fns[n] = [fn |-> o.actions.map[n], store |-> returned]
           /\ ~o.selectors.given => selectors'[k] = selectors[k]
           /\ ~o.actions.given => actions'[k] = actions[k]]_vars

\* a second registration of a key, with fewer selector names than the first
\* and no actions, after the first registered both
C6_Witness ==
  /\ last.op = "registerStore"
  /\ last.thrown = ""
  /\ last.store = 2
  /\ last.options.selectors.given
  /\ KeyNames(selectors[last.key]) = {"get"}
  /\ ~last.options.actions.given
  /\ KeyNames(actions[last.key]) = {"set", "inc"}

\* C7: select( reducerKey )[ name ]( ...args ) returns the registered selector
\* applied to the state its store has at the moment of the call, followed by
\* the caller's arguments.
C7_SelectReadsCurrentState ==
  last.op = "select" =>
    LET bound == selectors[last.key].fns[last.name]
    IN  last.ret = ApplySelector(bound.fn, storeObjs[bound.store].state, last.args)

C7_Witness ==
  /\ last.op = "select"
  /\ last.name = "test"
  /\ last.args # <<>>
  /\ last.ret = Bool(TRUE)

C9_RendersIffPredicateTruthy ==
  (hoc.predicate # "" /\ hoc.propName = Undefined) =>
    LET isOk == ApplyPredicate(hoc.predicate, hoc.props)
    IN  /\ Truthy(isOk) <=> hoc.out.element = "WrappedComponent"
        /\ ~Truthy(isOk) <=> hoc.out = Null
        /\ hoc.out.element = "WrappedComponent" => hoc.out.props = hoc.props

\* a non-boolean truthy predicate result renders the component
C9_Witness ==
  /\ hoc.predicate = "number"
  /\ hoc.propName = Undefined
  /\ hoc.props["number"] = Num(MaxNumber)
  /\ hoc.out.element = "WrappedComponent"

\* C10: with a prop name, the component always renders the wrapped component,
\* with every original prop and the prop of that name set to the predicate's
\* result for the original props.
C10_PropNameAlwaysRenders ==
  (hoc.predicate # "" /\ Truthy(hoc.propName)) =>
    LET isOk == ApplyPredicate(hoc.predicate, hoc.props)
        name == hoc.propName[2]
    IN  /\ hoc.out.element = "WrappedComponent"
        /\ DOMAIN hoc.out.props = DOMAIN hoc.props \cup {name}
        /\ hoc.out.props[name] = isOk
        /\ \A n \in DOMAIN hoc.props \ {name} : hoc.out.props[n] = hoc.props[n]

\* a failing predicate still renders, with the prop set to false
C10_Witness ==
  /\ hoc.predicate = "isEven"
  /\ hoc.propName = Str("isOk")
  /\ hoc.out.element = "WrappedComponent"
  /\ hoc.out.props["isOk"] = Bool(FALSE)
  /\ "label" \in DOMAIN hoc.out.props

(* ------------------------------ withSelect ---------------------------- *)
\* whether the component's runSelection is in the listener list
Subscribed(list) ==
  \E i \in DOMAIN list : list[i].fid = <<"listener", "runSelection">>

\* C11: a ComponentWithSelect is in the listener list exactly while it is
\* mounted: it subscribes in the mount step and is gone after the unmount
\* step.  While mounted, every dispatch to a store runs mapStateToProps once
\* with the current props, and every render by the parent runs it once with
\* the next props if these are not shallowly equal to the current ones and
\* not at all otherwise.  The state is set only when the result is not
\* shallowly equal to the state the component has.
C11_WithSelectFollowsStoreAndProps ==
  [][LET c == withSel
         d == withSel'
         current == IF d.op = "mount" THEN EmptyObject ELSE c.state
     IN  /\ d.mounted <=> Subscribed(listeners')
         /\ d.op = "mount" =>
               /\ ~Subscribed(listeners)
               /\ d.runs = 1 /\ d.ranWith = d.props
         /\ d.op = "unmount" => Subscribed(listeners) /\ ~Subscribed(listeners')
         /\ (c.mounted /\ IsDispatch(last')) =>
               /\ d.runs = 1 /\ d.ranWith = c.props
               /\ invoked'[c.unsubscribe] = 1
         /\ d.op = "receive" =>
               /\ d.runs = IF isEqualShallow(d.props, c.props) THEN 0 ELSE 1
               /\ d.runs = 1 => d.ranWith = d.props
         /\ (d.sets > 0 \/ (d.mounted /\ d.state # current)) =>
               /\ d.runs = 1 /\ d.sets = 1
               /\ ~isEqualShallow(mapStateToProps(d.map, Module', d.ranWith), current)]_vars

\* a dispatch changed the store's state, the selection ran again, and its
\* result was shallowly equal to the state: no setState
C11_Witness ==
  /\ withSel.mounted
  /\ withSel.map = "test"
  /\ IsDispatch(last)
  /\ storeObjs[last.store].state = 2
  /\ withSel.runs = 1
  /\ withSel.sets = 0
  /\ withSel.state = [n \in {"ok"} |-> Bool(TRUE)]

(* ----------------------------- withDispatch --------------------------- *)
\* C12: from one render of a mounted ComponentWithDispatch to the next, every
\* prop name that mapDispatchToProps returned for both renders is passed the
\* identical function; the names passed are those mapDispatchToProps returns
\* for the props rendered.
C12_ProxyFunctionsKeepIdentity ==
  [][(withDisp.mounted /\ withDisp'.mounted) =>
       LET before == DOMAIN mapDispatchToProps(withDisp.map, Module, withDisp.props)
           after == DOMAIN mapDispatchToProps(withDisp'.map, Module', withDisp'.props)
       IN  /\ DOMAIN withDisp'.proxyProps = after
           /\ \A propName \in before \cap after :
                 withDisp'.rendered[propName] = withDisp.rendered[propName]]_vars

\* 'onSet' is still the function bound at mount, after renders with other
\* props during which 'onInc' was dropped and bound again
C12_Witness ==
  /\ withDisp.mounted
  /\ DOMAIN withDisp.proxyProps = {"onSet", "onInc"}
  /\ withDisp.rendered["onSet"].serial = 1
  /\ withDisp.rendered["onSet"].made # withDisp.props
  /\ withDisp.rendered["onInc"].serial = 3

\* C13: calling the function passed under a prop name with args calls, once
\* and with args, the dispatcher mapDispatchToProps returns under that name
\* for the props the component has at the call, so the action goes to the
\* store that dispatcher is bound to.
C13_ProxyCallsCurrentDispatcher ==
  [][last'.op = "proxy" =>
       LET c == withDisp
           dispatcher == mapDispatchToProps(c.map, Module, c.props)[last'.name]
           target == dispatcher.store
       IN  /\ withDisp'.calls = <<[dispatcher |-> dispatcher, args |-> last'.args]>>
           /\ storeObjs'[target].state =
                Reduce(storeObjs[target].reducer, storeObjs[target].state,
                       ApplyCreator(dispatcher.fn, last'.args))
           /\ \A s \in DOMAIN storeObjs : s # target => storeObjs'[s] = storeObjs[s]]_vars

\* the function called was bound while the component had props naming the
\* other store
C13_Witness ==
  /\ last.op = "proxy"
  /\ withDisp.map = "byKey"
  /\ withDisp.proxyProps[last.name].made["key"] # withDisp.props["key"]
  /\ Len(withDisp.calls) = 1
  /\ storeObjs[withDisp.calls[1].dispatcher.store].state # 0
  /\ withDisp.calls[1].dispatcher.store = stores[withDisp.props["key"][2]]

(* ----------------------- PreserveScrollInReorder ---------------------- *)
\* the step is an update of the mounted component: the user has not
\* scrolled, or the step changed more than the scroll position
IsUpdate ==
  /\ scroll.mounted /\ scroll'.mounted
  /\ [scroll' EXCEPT !.scrollTop = scroll.scrollTop] # scroll

\* C14: an update that changes blockOrder while selectionStart is set, the
\* selected block has a node before and after it, and there is a scroll
\* container, changes scrollTop by exactly the block's top after the reorder
\* less its top before, and leaves no previous offset saved; an update that
\* does not change blockOrder leaves scrollTop unchanged.
C14_ReorderKeepsBlockOffset ==
  [][IsUpdate =>
       LET selectionStart == scroll'.props.selectionStart
           reordered == scroll'.props.blockOrder # scroll.props.blockOrder
           uid == selectionStart[2]
       IN  /\ ( /\ reordered
                /\ Truthy(selectionStart)
                /\ uid \in DOMAIN scroll.blocks
                /\ uid \in DOMAIN scroll'.blocks
                /\ scroll.container )
               => /\ scroll'.scrollTop =
                      scroll.scrollTop
                        + (scroll'.blocks[uid] - scroll.scrollTop)
                        - (scroll.blocks[uid] - scroll.scrollTop)
                  /\ ~Truthy(scroll'.previousOffset)
           /\ ~reordered => scroll'.scrollTop = scroll.scrollTop]_vars

(* ------------------------ edit-post store wiring ---------------------- *)
\* the wiring's listener is subscribed
Wired ==
  \E i \in DOMAIN listeners : listeners[i].fn = "collapseSidebar"

\* C15: once the wiring is loaded, a dispatch makes the listener call
\* dispatch( 'core/edit-post' ).closeGeneralSidebar() once if
\* isViewportMatch( '< medium' ) of the viewport store is not what it was
\* before the dispatch and is truthy, and not at all if it became falsy or
\* did not change; the call closes the sidebar of the edit-post store.
C15_SidebarClosesWhenViewportShrinks ==
  [][(Wired /\ IsDispatch(last')) =>
       LET viewport == stores["core/viewport"]
           editPost == stores["core/edit-post"]
           before == ApplySelector("isViewportMatch", storeObjs[viewport].state,
                                   IsSmallSelector.args)
           now == ApplySelector("isViewportMatch", storeObjs'[viewport].state,
                                IsSmallSelector.args)
           close == [key |-> "core/edit-post", name |-> "closeGeneralSidebar",
                     args |-> <<>>]
       IN  IF now # before /\ Truthy(now)
             THEN /\ sent' = <<close>>
                  /\ storeObjs'[editPost].state =
                       Reduce(storeObjs[editPost].reducer, storeObjs[editPost].state,
                              ApplyCreator("closeGeneralSidebar", <<>>))
             ELSE sent' = <<>>]_vars

\* the viewport became small, the listener closed an open sidebar, and the
\* dispatch it made ran a second pass over the listeners
C15_Witness ==
  /\ Wired
  /\ last.op = "dispatch"
  /\ last.store = stores["core/viewport"]
  /\ Len(sent) = 1
  /\ storeObjs[stores["core/edit-post"]].state = 1
  /\ \E s \in DOMAIN subs : subs[s].kind = "plain" /\ invoked[s] = 2

====
